---- MODULE Spec2Model ----
(***************************************************************************)
(* Task scheduling, dispatch and retry subsystem of claudemini/utils.      *)
(*                                                                         *)
(*   TaskDaemon        (task_daemon.py)         polling dispatcher          *)
(*   TaskErrorHandler  (task_error_handler.py)  retry / circuit breaker     *)
(*   CronScheduler     (cron_scheduler.py)      run_task                    *)
(*   ClaudeExecutor    (claude_executor.py)     execute_claude_command      *)
(*                                                                         *)
(* Times are seconds.  The PostgreSQL tables scheduled_tasks and           *)
(* task_executions are the committed store; every action below ends at a   *)
(* commit, so the variables always hold committed rows.                    *)
(*                                                                         *)
(*   Spec         one daemon process, crashes and restarts included         *)
(*   SpecTwo      two daemon processes on one store                         *)
(*   SpecStore    one daemon process on a store that may fail               *)
(*   SpecHandler  command line invocations of the error handler             *)
(*   SpecShutdown one daemon process that receives SIGINT / SIGTERM         *)
(*   SpecDelay    the two retry delay computations over their inputs        *)
(*   SpecExecutor the two command runners and their child processes         *)
(*   SpecStoreFair  SpecStore under weak fairness of the daemon's steps     *)
(*   SpecCall     one execute_with_retry call, weak fairness of its steps   *)
(*   SpecHandlerTwo  two handler processes on one state file               *)
(*   SpecStarve   one daemon with more due tasks than the fetch limit       *)
(*   SpecCron     CronScheduler.run_task for one task name                  *)
(***************************************************************************)
EXTENDS Integers, Sequences, FiniteSets, TLC

VARIABLES
    now,              \* wall clock / NOW()
    scheduled_tasks,  \* table scheduled_tasks: id -> row
    task_executions,  \* table task_executions: sequence of rows, id = index
    pc,               \* per daemon process: position in run()/main_loop()
    running,          \* per daemon process: self.running
    retry_attempts,   \* per daemon process: self.retry_attempts (0 = key absent)
    batch,            \* per daemon process: tasks of this tick still to iterate
    cur,              \* per daemon process: task / execution_id inside execute_task
    wake,             \* per daemon process: seconds of asyncio.sleep still to pass
    memories,         \* per task: MemoryManager.store_memory calls made by the daemon
    error_state_file, \* TaskErrorHandler: content of .task_error_state.json
    error_state,      \* per handler process: self.error_state
    h_pc,             \* per handler process: position in execute_with_retry
    h_call,           \* per handler process: task_name / attempt of the running call
    h_sleep,          \* per handler process: seconds of time.sleep still to pass
    h_result,         \* per handler process: what the last call returned
    alerts,           \* per task name: _handle_critical_failure calls
    alerted,          \* per task name: alerted, and no success or reset since
    x_pc,             \* per executor: position in the code that runs a command
    proc,             \* per executor: the child process
    x_signals,        \* per executor: signals sent to the child, in order
    x_timer,          \* per executor: seconds left of communicate() / wait()
    last_status,      \* per executor: the outcome status it reported
    running_processes,\* CronScheduler.running_processes[task.name] (0 = no entry)
    children,         \* processes started by run_task, in order: running / exited
    c_pc              \* per caller of run_task: idle, or in communicate() with a child

dvars == <<scheduled_tasks, task_executions, pc, running, retry_attempts,
           batch, cur, wake, memories>>

hvars == <<error_state_file, error_state, h_pc, h_call, h_sleep, h_result,
           alerts, alerted>>

cvars == <<running_processes, children, c_pc>>

xvars == <<x_pc, proc, x_signals, x_timer, last_status, cvars>>

vars == <<now, dvars, hvars, xvars>>

----------------------------------------------------------------------------
(* Bounds of the model *)
MaxNow   == 1500
MaxExecs == 4
Quantum  == 300   \* the clock is observed every Quantum seconds

(* Program constants *)
NULL             == -1
tick_interval    == 60
max_retries      == 3
retry_delays     == <<60, 300, 900>>
interval_seconds == 300
nonzero_delay    == 300
FetchLimit       == 5

Procs   == {1, 2}
TaskIds == 1..6

Min(a, b) == IF a < b THEN a ELSE b

(* A row of scheduled_tasks before its first run: due at once, switched on
   or off by the operator. *)
TaskRow(name, stype, prio, active) ==
    [task_name |-> name, schedule_type |-> stype, priority |-> prio,
     is_active |-> active, status |-> "active", next_run_at |-> 0]

NoCur == [task |-> 0, execution_id |-> 0]

(* Column interval_minutes of scheduled_tasks, as initialize_tasks inserts
   it from the task's template (a recurring template of 15 minutes for
   task 1, none for the one-time task 2).  No statement updates it, so it is
   kept beside the rows. *)
interval_minutes == [t \in TaskIds |-> IF t = 1 THEN 15 ELSE NULL]

----------------------------------------------------------------------------
(* TaskDaemon.get_pending_tasks: the rows the SELECT may return, in the
   orders ORDER BY priority DESC, next_run_at ASC allows. *)
IsDue(t) ==
    /\ scheduled_tasks[t].is_active
    /\ scheduled_tasks[t].next_run_at # NULL
    /\ scheduled_tasks[t].next_run_at <= now

(* ORDER BY priority ASC in place of DESC *)
Before_Ascending(a, b) ==
    \/ scheduled_tasks[a].priority < scheduled_tasks[b].priority
    \/ /\ scheduled_tasks[a].priority = scheduled_tasks[b].priority
       /\ scheduled_tasks[a].next_run_at < scheduled_tasks[b].next_run_at

Before(a, b) ==
    \/ scheduled_tasks[a].priority > scheduled_tasks[b].priority
    \/ /\ scheduled_tasks[a].priority = scheduled_tasks[b].priority
       /\ scheduled_tasks[a].next_run_at < scheduled_tasks[b].next_run_at

get_pending_tasks ==
    LET due == {t \in TaskIds : IsDue(t)}
        n   == Min(Cardinality(due), FetchLimit)
    IN {s \in [1..n -> due] :
          /\ \A i, j \in 1..n : i < j => s[i] # s[j] /\ ~Before(s[j], s[i])
          /\ \A t \in due : (\A i \in 1..n : s[i] # t) =>
                               \A i \in 1..n : ~Before(t, s[i])}

----------------------------------------------------------------------------
(* TaskDaemon.__init__ + run(): a fresh process connects and enters the loop;
   nothing is read back from the store. *)
Start(p) ==
    /\ pc[p] = "down"
    /\ pc' = [pc EXCEPT ![p] = "loop"]
    /\ running' = [running EXCEPT ![p] = TRUE]
    /\ retry_attempts' = [retry_attempts EXCEPT ![p] = [t \in TaskIds |-> 0]]
    /\ batch' = [batch EXCEPT ![p] = <<>>]
    /\ cur' = [cur EXCEPT ![p] = NoCur]
    /\ wake' = [wake EXCEPT ![p] = 0]
    /\ UNCHANGED <<hvars, xvars>>
    /\ UNCHANGED <<now, scheduled_tasks, task_executions, memories>>

(* main_loop: while self.running -> get_pending_tasks *)
Tick(p) ==
    /\ pc[p] = "loop"
    /\ running[p]
    /\ \E s \in get_pending_tasks : batch' = [batch EXCEPT ![p] = s]
    /\ pc' = [pc EXCEPT ![p] = "for"]
    /\ UNCHANGED <<hvars, xvars>>
    /\ UNCHANGED <<now, scheduled_tasks, task_executions, running,
                   retry_attempts, cur, wake, memories>>

(* main_loop: the while condition is false -> "Task daemon stopped" *)
Stop(p) ==
    /\ pc[p] = "loop"
    /\ ~running[p]
    /\ pc' = [pc EXCEPT ![p] = "down"]
    /\ UNCHANGED <<hvars, xvars>>
    /\ UNCHANGED <<now, scheduled_tasks, task_executions, running,
                   retry_attempts, batch, cur, wake, memories>>

(* execute_task reached without "if not self.running: break" (290-291) *)
Claim_IgnoresShutdown(p) ==
    /\ pc[p] = "for"
    /\ batch[p] # <<>>
    /\ Len(task_executions) < MaxExecs
    /\ LET t == Head(batch[p]) IN
         /\ task_executions' = Append(task_executions,
                                      [task_id |-> t, status |-> "running"])
         /\ cur' = [cur EXCEPT ![p] = [task |-> t,
                                       execution_id |-> Len(task_executions) + 1]]
    /\ pc' = [pc EXCEPT ![p] = "exec"]
    /\ UNCHANGED <<hvars, xvars>>
    /\ UNCHANGED <<now, scheduled_tasks, running, retry_attempts, batch, wake,
                   memories>>

(* execute_task, first transaction: INSERT 'running' and commit.  The
   last_run_at it also writes is an audit column that no query of the
   dispatcher reads; it is not part of the state. *)
Claim(p) ==
    /\ pc[p] = "for"
    /\ batch[p] # <<>>
    /\ running[p]
    /\ Len(task_executions) < MaxExecs
    /\ LET t == Head(batch[p]) IN
         /\ task_executions' = Append(task_executions,
                                      [task_id |-> t, status |-> "running"])
         /\ cur' = [cur EXCEPT ![p] = [task |-> t,
                                       execution_id |-> Len(task_executions) + 1]]
    /\ pc' = [pc EXCEPT ![p] = "exec"]
    /\ UNCHANGED <<hvars, xvars>>
    /\ UNCHANGED <<now, scheduled_tasks, running, retry_attempts, batch, wake,
                   memories>>

(* _handle_task_failure with both UPDATE scheduled_tasks statements lacking
   their WHERE id = task_id *)
FailureTasks_AllRows(t, rc) ==
    IF rc <= max_retries
    THEN [b \in TaskIds |-> [scheduled_tasks[b] EXCEPT
            !.next_run_at = now + retry_delays[Min(rc - 1, Len(retry_delays) - 1) + 1]]]
    ELSE [b \in TaskIds |-> [scheduled_tasks[b] EXCEPT
            !.status = "failed", !.next_run_at = NULL]]

(* _handle_task_failure: the rows it commits for retry count rc *)
FailureTasks(t, rc) ==
    IF rc <= max_retries
    THEN [scheduled_tasks EXCEPT
            ![t].next_run_at = now + retry_delays[Min(rc - 1, Len(retry_delays) - 1) + 1]]
    ELSE [scheduled_tasks EXCEPT ![t].status = "failed", ![t].next_run_at = NULL]

(* _handle_task_failure with UPDATE task_executions ... WHERE task_id = t
   in place of WHERE id = execution_id *)
HandleTaskFailure_ByTask(p, t, e, status) ==
    LET rc == retry_attempts[p][t] + 1 IN
    /\ retry_attempts' = [retry_attempts EXCEPT ![p][t] = rc]
    /\ task_executions' = [i \in DOMAIN task_executions |->
                             IF task_executions[i].task_id = t
                             THEN [task_executions[i] EXCEPT !.status = status]
                             ELSE task_executions[i]]
    /\ scheduled_tasks' = FailureTasks(t, rc)
    /\ memories' = IF rc <= max_retries THEN memories
                   ELSE [memories EXCEPT ![t] = @ + 1]

(* _handle_task_failure with a working store; e = 0 is execution_id None
   (line 229: the execution row is written only "if execution_id") *)
HandleTaskFailure(p, t, e, status) ==
    LET rc == retry_attempts[p][t] + 1 IN
    /\ retry_attempts' = [retry_attempts EXCEPT ![p][t] = rc]
    /\ task_executions' = IF e # 0
                          THEN [task_executions EXCEPT ![e].status = status]
                          ELSE task_executions
    /\ scheduled_tasks' = FailureTasks(t, rc)
    /\ memories' = IF rc <= max_retries THEN memories
                   ELSE [memories EXCEPT ![t] = @ + 1]

(* execute_task after subprocess.run returned with exit code 0 *)
SuccessTasks(t) ==
    IF scheduled_tasks[t].schedule_type \in {"interval", "recurring"}
    THEN [scheduled_tasks EXCEPT ![t].next_run_at = now + interval_seconds]
    ELSE [scheduled_tasks EXCEPT ![t].status = "completed"]

(* execute_task on exit code 0 without lines 163-165: the entry of
   retry_attempts is kept *)
FinishSuccess_KeepsCount(p) ==
    /\ pc[p] = "exec"
    /\ LET t == cur[p].task
           e == cur[p].execution_id IN
         /\ task_executions' = [task_executions EXCEPT ![e].status = "success"]
         /\ scheduled_tasks' = SuccessTasks(t)
    /\ pc' = [pc EXCEPT ![p] = "for"]
    /\ batch' = [batch EXCEPT ![p] = Tail(@)]
    /\ cur' = [cur EXCEPT ![p] = NoCur]
    /\ UNCHANGED <<hvars, xvars>>
    /\ UNCHANGED <<now, running, retry_attempts, wake, memories>>

FinishSuccess(p) ==
    /\ pc[p] = "exec"
    /\ LET t == cur[p].task
           e == cur[p].execution_id IN
         /\ retry_attempts' = [retry_attempts EXCEPT ![p][t] = 0]
         /\ task_executions' = [task_executions EXCEPT ![e].status = "success"]
         /\ scheduled_tasks' = SuccessTasks(t)
    /\ pc' = [pc EXCEPT ![p] = "for"]
    /\ batch' = [batch EXCEPT ![p] = Tail(@)]
    /\ cur' = [cur EXCEPT ![p] = NoCur]
    /\ UNCHANGED <<hvars, xvars>>
    /\ UNCHANGED <<now, running, wake, memories>>

(* execute_task after subprocess.run returned a non-zero exit code *)
FinishNonZero(p) ==
    /\ pc[p] = "exec"
    /\ LET t == cur[p].task
           e == cur[p].execution_id IN
         /\ task_executions' = [task_executions EXCEPT ![e].status = "failed"]
         /\ scheduled_tasks' = [scheduled_tasks EXCEPT
                                  ![t].next_run_at = now + nonzero_delay]
    /\ pc' = [pc EXCEPT ![p] = "for"]
    /\ batch' = [batch EXCEPT ![p] = Tail(@)]
    /\ cur' = [cur EXCEPT ![p] = NoCur]
    /\ UNCHANGED <<hvars, xvars>>
    /\ UNCHANGED <<now, running, retry_attempts, wake, memories>>

(* execute_task: subprocess.TimeoutExpired -> _handle_task_failure('timeout') *)
FinishTimeout(p) ==
    /\ pc[p] = "exec"
    /\ HandleTaskFailure(p, cur[p].task, cur[p].execution_id, "timeout")
    /\ pc' = [pc EXCEPT ![p] = "for"]
    /\ batch' = [batch EXCEPT ![p] = Tail(@)]
    /\ cur' = [cur EXCEPT ![p] = NoCur]
    /\ UNCHANGED <<hvars, xvars>>
    /\ UNCHANGED <<now, running, wake>>

(* execute_task: any other exception of subprocess.run
   -> _handle_task_failure('failed') *)
FinishException(p) ==
    /\ pc[p] = "exec"
    /\ HandleTaskFailure(p, cur[p].task, cur[p].execution_id, "failed")
    /\ pc' = [pc EXCEPT ![p] = "for"]
    /\ batch' = [batch EXCEPT ![p] = Tail(@)]
    /\ cur' = [cur EXCEPT ![p] = NoCur]
    /\ UNCHANGED <<hvars, xvars>>
    /\ UNCHANGED <<now, running, wake>>

(***************************************************************************)
(* Store errors: a psycopg2 call raises.  What _handle_task_failure does   *)
(* with the exception it is handed depends on how far the store fails:     *)
(*   "handled"  its own transaction commits                                *)
(*   "lost"     rollback (219) works, the count is raised (225), a later   *)
(*              statement or the commit raises; the rollback of the except *)
(*              clause (270) works and execute_task returns                *)
(*   "abort"    as "lost", but the rollback of line 270 raises too: the    *)
(*              exception leaves execute_task and is caught by main_loop   *)
(*              (297), which gives up the rest of the tick                 *)
(*   "dead"     already the rollback of line 219 raises: nothing is        *)
(*              counted, line 270 raises again, main_loop catches          *)
(***************************************************************************)
StoreFaults   == {"handled", "lost", "abort", "dead"}
HandlerFaults == {"lost", "abort", "dead"}

(* main_loop without its except clause: the exception ends the process *)
AbortTick_Raises(p) ==
    /\ batch' = [batch EXCEPT ![p] = <<>>]
    /\ cur' = [cur EXCEPT ![p] = NoCur]
    /\ pc' = [pc EXCEPT ![p] = "down"]
    /\ wake' = [wake EXCEPT ![p] = 0]

(* main_loop, except clause (297-303) and the lines after it: the rest of
   the batch is given up and the loop sleeps to the next tick *)
AbortTick(p) ==
    /\ batch' = [batch EXCEPT ![p] = <<>>]
    /\ cur' = [cur EXCEPT ![p] = NoCur]
    /\ pc' = [pc EXCEPT ![p] = IF running[p] THEN "sleep" ELSE "loop"]
    /\ wake' = [wake EXCEPT ![p] = IF running[p] THEN tick_interval ELSE 0]

(* execute_task returns to the for loop of main_loop *)
ReturnToFor(p) ==
    /\ batch' = [batch EXCEPT ![p] = Tail(@)]
    /\ cur' = [cur EXCEPT ![p] = NoCur]
    /\ pc' = [pc EXCEPT ![p] = "for"]
    /\ UNCHANGED wake

(* _handle_task_failure(t, e, status) called with retry_attempts as in
   `ra`, under store fault r *)
FailureUnderFault(p, t, e, status, ra, r) ==
    /\ IF r = "handled"
       THEN LET rc == ra[p][t] + 1 IN
            /\ retry_attempts' = [ra EXCEPT ![p][t] = rc]
            /\ task_executions' = IF e # 0
                                  THEN [task_executions EXCEPT ![e].status = status]
                                  ELSE task_executions
            /\ scheduled_tasks' = FailureTasks(t, rc)
            /\ memories' = IF rc <= max_retries THEN memories
                           ELSE [memories EXCEPT ![t] = @ + 1]
       ELSE /\ retry_attempts' = IF r = "dead" THEN ra
                                 ELSE [ra EXCEPT ![p][t] = @ + 1]
            /\ UNCHANGED <<task_executions, scheduled_tasks, memories>>
    /\ IF r \in {"abort", "dead"} THEN AbortTick(p) ELSE ReturnToFor(p)

(* get_pending_tasks: the SELECT raises; the except clause returns [] *)
TickStoreError(p) ==
    /\ pc[p] = "loop"
    /\ running[p]
    /\ batch' = [batch EXCEPT ![p] = <<>>]
    /\ pc' = [pc EXCEPT ![p] = "for"]
    /\ UNCHANGED <<hvars, xvars>>
    /\ UNCHANGED <<now, scheduled_tasks, task_executions, running,
                   retry_attempts, cur, wake, memories>>

(* execute_task: the first transaction (113-127) raises before its commit;
   execution_id is still None when "except Exception" (211) calls
   _handle_task_failure *)
ClaimStoreError(p, r) ==
    /\ pc[p] = "for"
    /\ batch[p] # <<>>
    /\ running[p]
    /\ FailureUnderFault(p, Head(batch[p]), 0, "failed", retry_attempts, r)
    /\ UNCHANGED <<hvars, xvars>>
    /\ UNCHANGED <<now, running>>

(* execute_task: subprocess.run returned (exit code 0 when rc0) and the
   transaction that records it (160-205) raises; on exit code 0 the entry of
   retry_attempts is deleted (164-165) before the first statement *)
FinishStoreError(p, rc0, r) ==
    /\ pc[p] = "exec"
    /\ LET t  == cur[p].task
           ra == IF rc0 THEN [retry_attempts EXCEPT ![p][t] = 0]
                 ELSE retry_attempts
       IN FailureUnderFault(p, t, cur[p].execution_id, "failed", ra, r)
    /\ UNCHANGED <<hvars, xvars>>
    /\ UNCHANGED <<now, running>>

(* execute_task: subprocess.run raised (TimeoutExpired or another exception)
   and _handle_task_failure itself meets a store error *)
FailureHandlerError(p, r) ==
    /\ pc[p] = "exec"
    /\ FailureUnderFault(p, cur[p].task, cur[p].execution_id, "timeout",
                         retry_attempts, r)
    /\ UNCHANGED <<hvars, xvars>>
    /\ UNCHANGED <<now, running>>

(* main_loop: the for loop is over (or broken by not self.running);
   sleep the rest of the tick when still running *)
EndTick(p) ==
    /\ pc[p] = "for"
    /\ batch[p] = <<>> \/ ~running[p]
    /\ batch' = [batch EXCEPT ![p] = <<>>]
    /\ pc' = [pc EXCEPT ![p] = IF running[p] THEN "sleep" ELSE "loop"]
    /\ wake' = [wake EXCEPT ![p] = IF running[p] THEN tick_interval ELSE 0]
    /\ UNCHANGED <<hvars, xvars>>
    /\ UNCHANGED <<now, scheduled_tasks, task_executions, running,
                   retry_attempts, cur, memories>>

(* asyncio.sleep(sleep_time) returns *)
Wake(p) ==
    /\ pc[p] = "sleep"
    /\ wake[p] = 0
    /\ pc' = [pc EXCEPT ![p] = "loop"]
    /\ UNCHANGED <<hvars, xvars>>
    /\ UNCHANGED <<now, scheduled_tasks, task_executions, running,
                   retry_attempts, batch, cur, wake, memories>>

(* handle_shutdown: SIGINT / SIGTERM *)
Shutdown(p) ==
    /\ pc[p] # "down"
    /\ running[p]
    /\ running' = [running EXCEPT ![p] = FALSE]
    /\ UNCHANGED <<hvars, xvars>>
    /\ UNCHANGED <<now, scheduled_tasks, task_executions, pc,
                   retry_attempts, batch, cur, wake, memories>>

(* The process dies (kill -9, power loss); the store keeps its committed
   rows.  retry_attempts keeps what the dead process last held until the next
   process builds its own dict in __init__ (Start); nothing reads it while
   the process is down. *)
Crash(p) ==
    /\ pc[p] # "down"
    /\ pc' = [pc EXCEPT ![p] = "down"]
    /\ running' = [running EXCEPT ![p] = FALSE]
    /\ batch' = [batch EXCEPT ![p] = <<>>]
    /\ cur' = [cur EXCEPT ![p] = NoCur]
    /\ wake' = [wake EXCEPT ![p] = 0]
    /\ UNCHANGED <<hvars, xvars>>
    /\ UNCHANGED <<now, scheduled_tasks, task_executions, retry_attempts,
                   memories>>

(* Time passes. *)
Advance ==
    /\ now + Quantum <= MaxNow
    /\ now' = now + Quantum
    /\ wake' = [p \in Procs |-> IF wake[p] > Quantum
                                THEN wake[p] - Quantum ELSE 0]
    /\ UNCHANGED <<hvars, xvars>>
    /\ UNCHANGED <<scheduled_tasks, task_executions, pc, running,
                   retry_attempts, batch, cur, memories>>

----------------------------------------------------------------------------
(***************************************************************************)
(* TaskErrorHandler (task_error_handler.py)                                *)
(***************************************************************************)
(* Bounds of the handler model *)
HMaxNow     == 18000
HQuantum    == 3600   \* the clock is observed every HQuantum seconds
MaxFailures == 6

OneHour == 3600

HProcs    == {1, 2}
TaskNames == {"portfolio_rebalancing", "daily_backup"}
Errors    == {"Command failed", "Task timeout"}

default_retry_config ==
    [max_retries |-> 3, base_delay |-> 60, max_delay |-> 3600,
     exponential_base |-> 2]

task_configs ==
    ("crypto_market_analysis" :>
        [max_retries |-> 5, base_delay |-> 120, critical |-> FALSE]) @@
    ("twitter_engagement" :>
        [max_retries |-> 3, base_delay |-> 300, critical |-> FALSE]) @@
    ("portfolio_rebalancing" :>
        [max_retries |-> 2, base_delay |-> 600, critical |-> TRUE]) @@
    ("memory_pattern_analysis" :>
        [max_retries |-> 4, base_delay |-> 180, critical |-> FALSE])

(* dict.get(key, default) *)
DictGet(d, k, dflt) == IF k \in DOMAIN d THEN d[k] ELSE dflt

(* the lookup without self.task_configs: every task gets the defaults *)
Config_IgnoresOverride(task_name) == default_retry_config

(* self.task_configs.get(task_name, self.default_retry_config) *)
Config(task_name) ==
    DictGet(task_configs, task_name, default_retry_config)

MaxRetriesOf(task_name) ==
    DictGet(Config(task_name), "max_retries", default_retry_config.max_retries)

Critical(task_name) == DictGet(Config(task_name), "critical", FALSE)

RECURSIVE Pow(_, _)
Pow(b, e) == IF e = 0 THEN 1 ELSE b * Pow(b, e - 1)

(* _get_retry_delay without the min(..., max_delay) of line 90 *)
get_retry_delay_Uncapped(task_name, attempt) ==
    LET config     == Config(task_name)
        base_delay == DictGet(config, "base_delay", default_retry_config.base_delay)
        exp_base   == DictGet(config, "exponential_base",
                              default_retry_config.exponential_base)
    IN base_delay * Pow(exp_base, attempt)

get_retry_delay(task_name, attempt) ==
    LET config     == Config(task_name)
        base_delay == DictGet(config, "base_delay", default_retry_config.base_delay)
        max_delay  == DictGet(config, "max_delay", default_retry_config.max_delay)
        exp_base   == DictGet(config, "exponential_base",
                              default_retry_config.exponential_base)
    IN Min(base_delay * Pow(exp_base, attempt), max_delay)

(* hashlib.md5(task_name.encode()).hexdigest()[:8] *)
get_task_id(task_name) ==
    CASE task_name = "portfolio_rebalancing"   -> "ce9319bb"
      [] task_name = "daily_backup"            -> "11bd9d66"
      [] task_name = "twitter_engagement"      -> "557550e7"
      [] task_name = "crypto_market_analysis"  -> "8ecefc7d"
      [] task_name = "memory_pattern_analysis" -> "07434587"

EmptyDict == [k \in {} |-> NULL]

NewTaskState(task_name) ==
    [task_name |-> task_name, failures |-> 0, last_failure |-> NULL,
     last_success |-> NULL, consecutive_failures |-> 0]

RECURSIVE SumFailures(_, _)
SumFailures(d, ks) ==
    IF ks = {} THEN 0
    ELSE LET k == CHOOSE x \in ks : TRUE
         IN d[k].failures + SumFailures(d, ks \ {k})

(* failures recorded in an error-state dict, over all tasks *)
TotalFailures(d) == SumFailures(d, DOMAIN d)

NoCall   == [task_name |-> "", attempt |-> 0, last_error |-> ""]
NoResult == [kind |-> "none", attempts |-> 0]

(* TaskErrorHandler.__init__: self.error_state = self._load_error_state() *)
HStart(h) ==
    /\ h_pc[h] = "none"
    /\ error_state' = [error_state EXCEPT ![h] = error_state_file]
    /\ h_pc' = [h_pc EXCEPT ![h] = "ready"]
    /\ UNCHANGED <<dvars, xvars>>
    /\ UNCHANGED <<now, error_state_file, h_call, h_sleep, h_result, alerts,
                   alerted>>

(* execute_with_retry up to the while loop: initialise the task's state,
   then either return "skipped" or enter the loop with attempt = 0 *)
ShouldSkip_Strict(task_state, task_name) ==
    /\ task_state.consecutive_failures > MaxRetriesOf(task_name)
    /\ now - task_state.last_failure < OneHour

ShouldSkip(task_state, task_name) ==
    /\ task_state.consecutive_failures >= MaxRetriesOf(task_name)
    /\ now - task_state.last_failure < OneHour

HExecute(h, task_name) ==
    /\ h_pc[h] = "ready"
    /\ LET task_id == get_task_id(task_name)
           st == IF task_id \in DOMAIN error_state[h] THEN error_state[h]
                 ELSE (task_id :> NewTaskState(task_name)) @@ error_state[h]
       IN /\ error_state' = [error_state EXCEPT ![h] = st]
          /\ IF ShouldSkip(st[task_id], task_name)
             THEN /\ h_pc' = [h_pc EXCEPT ![h] = "done"]
                  /\ h_result' = [h_result EXCEPT
                                    ![h] = [kind |-> "skipped", attempts |-> 0]]
                  /\ h_call' = [h_call EXCEPT ![h] =
                        [task_name |-> task_name, attempt |-> 0, last_error |-> ""]]
             ELSE /\ h_pc' = [h_pc EXCEPT ![h] = "run"]
                  /\ h_call' = [h_call EXCEPT ![h] =
                        [task_name |-> task_name, attempt |-> 0, last_error |-> ""]]
                  /\ UNCHANGED h_result
    /\ UNCHANGED <<dvars, xvars>>
    /\ UNCHANGED <<now, error_state_file, h_sleep, alerts, alerted>>

(* one iteration of the while loop whose subprocess.run returns exit code 0 *)
HRunSuccess(h) ==
    /\ h_pc[h] = "run"
    /\ LET task_name == h_call[h].task_name
           task_id   == get_task_id(task_name)
           st == [error_state[h] EXCEPT ![task_id].last_success = now,
                                        ![task_id].consecutive_failures = 0]
       IN /\ error_state' = [error_state EXCEPT ![h] = st]
          /\ error_state_file' = st
          /\ alerted' = [alerted EXCEPT ![task_name] = FALSE]
          /\ h_result' = [h_result EXCEPT ![h] =
                [kind |-> "success", attempts |-> h_call[h].attempt + 1]]
    /\ h_pc' = [h_pc EXCEPT ![h] = "done"]
    /\ h_call' = [h_call EXCEPT ![h] = NoCall]
    /\ UNCHANGED <<dvars, xvars>>
    /\ UNCHANGED <<now, h_sleep, alerts>>

(* one iteration of the while loop whose subprocess.run fails (non-zero exit)
   or times out; after the last one the code below the loop runs *)
HRunFailure(h, err) ==
    /\ h_pc[h] = "run"
    /\ LET task_name == h_call[h].task_name
           task_id   == get_task_id(task_name)
           attempt   == h_call[h].attempt + 1
           st == [error_state[h] EXCEPT
                    ![task_id].failures = @ + 1,
                    ![task_id].consecutive_failures = @ + 1,
                    ![task_id].last_failure = now]
       IN /\ TotalFailures(error_state[h]) < MaxFailures
          /\ error_state' = [error_state EXCEPT ![h] = st]
          /\ error_state_file' = st
          /\ IF attempt <= MaxRetriesOf(task_name)
             THEN /\ h_pc' = [h_pc EXCEPT ![h] = "sleep"]
                  /\ h_sleep' = [h_sleep EXCEPT
                                   ![h] = get_retry_delay(task_name, attempt)]
                  /\ h_call' = [h_call EXCEPT ![h].attempt = attempt,
                                              ![h].last_error = err]
                  /\ UNCHANGED <<h_result, alerts, alerted>>
             ELSE /\ h_pc' = [h_pc EXCEPT ![h] = "done"]
                  /\ h_call' = [h_call EXCEPT ![h] = NoCall]
                  /\ h_result' = [h_result EXCEPT ![h] =
                        [kind |-> "failed", attempts |-> attempt]]
                  /\ IF Critical(task_name)
                     THEN /\ alerts' = [alerts EXCEPT ![task_name] = @ + 1]
                          /\ alerted' = [alerted EXCEPT ![task_name] = TRUE]
                     ELSE UNCHANGED <<alerts, alerted>>
                  /\ UNCHANGED h_sleep
    /\ UNCHANGED <<dvars, xvars>>
    /\ UNCHANGED now

(* time.sleep(delay) returns *)
HWake(h) ==
    /\ h_pc[h] = "sleep"
    /\ h_sleep[h] = 0
    /\ h_pc' = [h_pc EXCEPT ![h] = "run"]
    /\ UNCHANGED <<dvars, xvars>>
    /\ UNCHANGED <<now, error_state_file, error_state, h_call, h_sleep,
                   h_result, alerts, alerted>>

(* reset_task_state without its self._save_error_state() (line 231) *)
HReset_NotSaved(h, task_name) ==
    /\ h_pc[h] = "ready"
    /\ LET task_id == get_task_id(task_name) IN
         IF task_id \in DOMAIN error_state[h]
         THEN LET st == [error_state[h] EXCEPT
                           ![task_id].consecutive_failures = 0]
              IN /\ error_state' = [error_state EXCEPT ![h] = st]
                 /\ alerted' = [alerted EXCEPT ![task_name] = FALSE]
                 /\ UNCHANGED error_state_file
         ELSE UNCHANGED <<error_state, error_state_file, alerted>>
    /\ h_pc' = [h_pc EXCEPT ![h] = "done"]
    /\ h_call' = [h_call EXCEPT ![h] =
          [task_name |-> task_name, attempt |-> 0, last_error |-> ""]]
    /\ UNCHANGED <<dvars, xvars>>
    /\ UNCHANGED <<now, h_sleep, h_result, alerts>>

(* reset_task_state(task_name) *)
HReset(h, task_name) ==
    /\ h_pc[h] = "ready"
    /\ LET task_id == get_task_id(task_name) IN
         IF task_id \in DOMAIN error_state[h]
         THEN LET st == [error_state[h] EXCEPT
                           ![task_id].consecutive_failures = 0]
              IN /\ error_state' = [error_state EXCEPT ![h] = st]
                 /\ error_state_file' = st
                 /\ alerted' = [alerted EXCEPT ![task_name] = FALSE]
         ELSE UNCHANGED <<error_state, error_state_file, alerted>>
    /\ h_pc' = [h_pc EXCEPT ![h] = "done"]
    /\ h_call' = [h_call EXCEPT ![h] =
          [task_name |-> task_name, attempt |-> 0, last_error |-> ""]]
    /\ UNCHANGED <<dvars, xvars>>
    /\ UNCHANGED <<now, h_sleep, h_result, alerts>>

(* get_failure_report with a plain "if" where line 220 has "elif" *)
get_failure_report_NoElif(state) ==
    LET failing == {k \in DOMAIN state : state[k].consecutive_failures > 0}
    IN [kind |-> "report", attempts |-> 0,
        failing_tasks |-> failing,
        critical_tasks |->
            {k \in failing :
                DictGet(DictGet(task_configs, state[k].task_name, EmptyDict),
                        "critical", FALSE)},
        recovered_tasks |->
            {k \in DOMAIN state :
                state[k].last_success # NULL /\ state[k].failures > 0}]

(* get_failure_report: the three lists, as the sets of the task ids listed *)
get_failure_report(state) ==
    LET failing == {k \in DOMAIN state : state[k].consecutive_failures > 0}
    IN [kind |-> "report", attempts |-> 0,
        failing_tasks |-> failing,
        critical_tasks |->
            {k \in failing :
                DictGet(DictGet(task_configs, state[k].task_name, EmptyDict),
                        "critical", FALSE)},
        recovered_tasks |->
            {k \in DOMAIN state \ failing :
                state[k].last_success # NULL /\ state[k].failures > 0}]

(* command line "report": handler.get_failure_report() *)
HReport(h) ==
    /\ h_pc[h] = "ready"
    /\ h_result' = [h_result EXCEPT ![h] = get_failure_report(error_state[h])]
    /\ h_pc' = [h_pc EXCEPT ![h] = "done"]
    /\ UNCHANGED <<dvars, xvars>>
    /\ UNCHANGED <<now, error_state_file, error_state, h_call, h_sleep,
                   alerts, alerted>>

(* the handler's process ends: the command line interface prints the result
   of its one call and exits, or the process is killed at any point *)
HExit(h) ==
    /\ h_pc[h] # "none"
    /\ h_pc' = [h_pc EXCEPT ![h] = "none"]
    /\ error_state' = [error_state EXCEPT ![h] = EmptyDict]
    /\ h_call' = [h_call EXCEPT ![h] = NoCall]
    /\ h_sleep' = [h_sleep EXCEPT ![h] = 0]
    /\ h_result' = [h_result EXCEPT ![h] = NoResult]
    /\ UNCHANGED <<dvars, xvars>>
    /\ UNCHANGED <<now, error_state_file, alerts, alerted>>

(* Time passes. *)
HAdvance ==
    /\ now + HQuantum <= HMaxNow
    /\ now' = now + HQuantum
    /\ h_sleep' = [h \in HProcs |-> IF h_sleep[h] > HQuantum
                                    THEN h_sleep[h] - HQuantum ELSE 0]
    /\ UNCHANGED <<dvars, xvars>>
    /\ UNCHANGED <<error_state_file, error_state, h_pc, h_call, h_result,
                   alerts, alerted>>

HandlerInit ==
    /\ error_state_file = EmptyDict
    /\ error_state = [h \in HProcs |-> EmptyDict]
    /\ h_pc = [h \in HProcs |-> "none"]
    /\ h_call = [h \in HProcs |-> NoCall]
    /\ h_sleep = [h \in HProcs |-> 0]
    /\ h_result = [h \in HProcs |-> NoResult]
    /\ alerts = [n \in TaskNames |-> 0]
    /\ alerted = [n \in TaskNames |-> FALSE]

----------------------------------------------------------------------------
(***************************************************************************)
(* Command runners: CronScheduler.run_task and                             *)
(* ClaudeExecutor.execute_claude_command.  Each starts a child process,    *)
(* waits for it in communicate(timeout) and reports an outcome status.     *)
(***************************************************************************)
XQuantum == 60

Executors == {"cron", "claude"}

(* cron_scheduler.py 105: Task(..., timeout=60);
   claude_executor.py 43: timeout: int = 300 *)
timeout == [e \in Executors |-> IF e = "cron" THEN 60 ELSE 300]

(* cron_scheduler.py 187: proc.wait(timeout=5) *)
grace == 5

(* callers of CronScheduler.run_task for one task: the scheduler loop and
   one more caller, which is what the check of lines 148-153 is for *)
Callers == {1, 2}

MaxChildren == 3

ExecutorInit ==
    /\ x_pc = [e \in Executors |-> "idle"]
    /\ proc = [e \in Executors |-> "none"]
    /\ x_signals = [e \in Executors |-> <<>>]
    /\ x_timer = [e \in Executors |-> 0]
    /\ last_status = [e \in Executors |-> "none"]
    /\ running_processes = 0
    /\ children = <<>>
    /\ c_pc = [c \in Callers |-> 0]

Exited(e) == proc[e] \in {"exit0", "exit1", "terminated"}

(* subprocess.Popen(...) followed by communicate(timeout=...) *)
XPopen(e) ==
    /\ x_pc[e] = "idle"
    /\ x_pc' = [x_pc EXCEPT ![e] = "communicate"]
    /\ proc' = [proc EXCEPT ![e] = "running"]
    /\ x_signals' = [x_signals EXCEPT ![e] = <<>>]
    /\ x_timer' = [x_timer EXCEPT ![e] = timeout[e]]
    /\ UNCHANGED <<now, dvars, hvars, cvars, last_status>>

(* the child ends by itself: exit code 0, a non-zero exit code, or, once it
   has received SIGTERM, by that signal *)
XExit(e) ==
    /\ proc[e] = "running"
    /\ \E how \in {"exit0", "exit1", "terminated"} :
          /\ how = "terminated" => x_signals[e] # <<>>
          /\ proc' = [proc EXCEPT ![e] = how]
    /\ UNCHANGED <<now, dvars, hvars, cvars, x_pc, x_signals, x_timer, last_status>>

(* communicate() returns: returncode == 0 -> 'success', else 'failed' *)
XCommunicateReturns(e) ==
    /\ x_pc[e] = "communicate"
    /\ Exited(e)
    /\ last_status' = [last_status EXCEPT ![e] =
                          IF proc[e] = "exit0" THEN "success" ELSE "failed"]
    /\ x_pc' = [x_pc EXCEPT ![e] = "done"]
    /\ UNCHANGED <<now, dvars, hvars, cvars, proc, x_signals, x_timer>>

(* except subprocess.TimeoutExpired.
   run_task 183-187: proc.terminate(), then proc.wait(timeout=5);
   execute_claude_command 76-83: process.kill(), status 'timeout' *)
XTimeoutExpired(e) ==
    /\ x_pc[e] = "communicate"
    /\ x_timer[e] = 0
    /\ proc[e] = "running"
    /\ IF e = "cron"
       THEN /\ x_signals' = [x_signals EXCEPT ![e] = Append(@, "SIGTERM")]
            /\ x_pc' = [x_pc EXCEPT ![e] = "wait"]
            /\ x_timer' = [x_timer EXCEPT ![e] = grace]
            /\ UNCHANGED <<proc, last_status>>
       ELSE /\ x_signals' = [x_signals EXCEPT ![e] = Append(@, "SIGKILL")]
            /\ proc' = [proc EXCEPT ![e] = "killed"]
            /\ last_status' = [last_status EXCEPT ![e] = "timeout"]
            /\ x_pc' = [x_pc EXCEPT ![e] = "done"]
            /\ UNCHANGED x_timer
    /\ UNCHANGED <<now, dvars, hvars, cvars, cvars>>

(* run_task 187, 190-192: proc.wait(timeout=5) returns because the child
   has ended *)
XWaitReturns(e) ==
    /\ x_pc[e] = "wait"
    /\ Exited(e)
    /\ last_status' = [last_status EXCEPT ![e] = "timeout"]
    /\ x_pc' = [x_pc EXCEPT ![e] = "done"]
    /\ UNCHANGED <<now, dvars, hvars, cvars, proc, x_signals, x_timer>>

(* run_task 188-192: the wait times out -> proc.kill() *)
XWaitExpired(e) ==
    /\ x_pc[e] = "wait"
    /\ x_timer[e] = 0
    /\ proc[e] = "running"
    /\ x_signals' = [x_signals EXCEPT ![e] = Append(@, "SIGKILL")]
    /\ proc' = [proc EXCEPT ![e] = "killed"]
    /\ last_status' = [last_status EXCEPT ![e] = "timeout"]
    /\ x_pc' = [x_pc EXCEPT ![e] = "done"]
    /\ UNCHANGED <<now, dvars, hvars, cvars, x_timer>>

(* time passes for the runners that wait with a limit *)
XAdvance ==
    /\ \E e \in Executors : x_pc[e] \in {"communicate", "wait"}
                            /\ x_timer[e] > 0
    /\ x_timer' = [e \in Executors |->
                      IF x_timer[e] > XQuantum THEN x_timer[e] - XQuantum
                                               ELSE 0]
    /\ UNCHANGED <<now, dvars, hvars, cvars, x_pc, proc, x_signals, last_status>>

----------------------------------------------------------------------------
DaemonInitRows(rows) ==
    /\ now = 0
    /\ scheduled_tasks = rows
    /\ task_executions = <<>>
    /\ pc = [p \in Procs |-> "down"]
    /\ running = [p \in Procs |-> FALSE]
    /\ retry_attempts = [p \in Procs |-> [t \in TaskIds |-> 0]]
    /\ batch = [p \in Procs |-> <<>>]
    /\ cur = [p \in Procs |-> NoCur]
    /\ wake = [p \in Procs |-> 0]
    /\ memories = [t \in TaskIds |-> 0]

DaemonInitWith(a1, a2) ==
    DaemonInitRows([t \in TaskIds |->
        IF t = 1 THEN TaskRow("twitter_engagement", "recurring", 9, a1)
        ELSE IF t = 2 THEN TaskRow("portfolio_rebalancing", "once", 3, a2)
        ELSE TaskRow("portfolio_rebalancing", "once", 3, FALSE)])

(* the store holds two tasks, each switched on or off, and four rows that
   are switched off *)
DaemonInit == \E a1, a2 \in BOOLEAN : DaemonInitWith(a1, a2)

Init == DaemonInit /\ HandlerInit /\ ExecutorInit

(* the store holds one active task *)
InitTwo == DaemonInitWith(TRUE, FALSE) /\ HandlerInit
           /\ ExecutorInit

InitHandler == DaemonInitWith(TRUE, TRUE) /\ HandlerInit
               /\ ExecutorInit

DaemonRun(p) ==
    \/ Start(p)
    \/ Tick(p)
    \/ Claim(p)
    \/ FinishSuccess(p)
    \/ FinishNonZero(p)
    \/ FinishTimeout(p)
    \/ FinishException(p)
    \/ EndTick(p)
    \/ Wake(p)

DaemonStep(p) == DaemonRun(p) \/ Crash(p)

(* One dispatcher process, which may crash and be started again. *)
Next == DaemonStep(1) \/ Advance

Spec == Init /\ [][Next]_vars

(* Two dispatcher processes against the same store, neither of which dies. *)
NextTwo == (\E p \in Procs : DaemonRun(p)) \/ Advance

SpecTwo == InitTwo /\ [][NextTwo]_vars

(* One dispatcher process with shutdown signals, on a store that works. *)
NextShutdown ==
    \/ DaemonRun(1)
    \/ Shutdown(1)
    \/ Stop(1)
    \/ Advance

InitShutdown == DaemonInitWith(TRUE, TRUE) /\ HandlerInit
                /\ ExecutorInit

SpecShutdown == InitShutdown /\ [][NextShutdown]_vars

(* One dispatcher process on a store that may fail, with shutdown signals. *)
StoreError(p) ==
    \/ TickStoreError(p)
    \/ \E r \in StoreFaults : ClaimStoreError(p, r)
    \/ \E rc0 \in BOOLEAN, r \in StoreFaults : FinishStoreError(p, rc0, r)
    \/ \E r \in HandlerFaults : FailureHandlerError(p, r)

NextStore ==
    \/ DaemonRun(1)
    \/ StoreError(1)
    \/ Shutdown(1)
    \/ Stop(1)
    \/ Advance

(* the store holds one active task *)
InitStore == DaemonInitWith(TRUE, FALSE) /\ HandlerInit
             /\ ExecutorInit

SpecStore == InitStore /\ [][NextStore]_vars

(* The same, with progress: a dispatcher process that is not killed executes
   its next statement (subprocess.run returns at the latest at its timeout,
   asyncio.sleep returns when its time is over), and time passes.  Store
   errors may happen or not.  The clock is followed up to MaxNow; after
   that the sleeps of the main loop still end (Elapse), so the dispatcher
   keeps polling for ever. *)
Elapse ==
    /\ now + Quantum > MaxNow
    /\ \E p \in Procs : wake[p] > 0
    /\ wake' = [p \in Procs |-> IF wake[p] > Quantum
                                THEN wake[p] - Quantum ELSE 0]
    /\ UNCHANGED <<hvars, xvars>>
    /\ UNCHANGED <<now, scheduled_tasks, task_executions, pc, running,
                   retry_attempts, batch, cur, memories>>

(* store errors happen while the clock is followed, not after *)
StoreErrorInTime(p) ==
    /\ now + Quantum <= MaxNow
    /\ StoreError(p)

NextStoreFair ==
    \/ DaemonRun(1)
    \/ StoreErrorInTime(1)
    \/ Shutdown(1)
    \/ Stop(1)
    \/ Advance
    \/ Elapse

SpecStoreFair ==
    /\ InitStore /\ [][NextStoreFair]_vars
    /\ WF_vars(DaemonRun(1)) /\ WF_vars(Stop(1))
    /\ WF_vars(Advance) /\ WF_vars(Elapse)

(* A store with more tasks than one tick fetches: tasks 1..5 are one-time
   tasks of priorities 9..5, the first k of them switched on, and task 6 is a
   recurring task of priority 3; all are due.  Every command exits 0, the
   process is not killed and gets no signal. *)
InitStarve ==
    /\ \E k \in 0..FetchLimit :
          DaemonInitRows([t \in TaskIds |->
              IF t <= FetchLimit
              THEN TaskRow("portfolio_rebalancing", "once", 10 - t, t <= k)
              ELSE TaskRow("twitter_engagement", "recurring", 3, TRUE)])
    /\ HandlerInit
    /\ ExecutorInit

(* Claim, with task_executions shown by its last MaxExecs rows: the process
   never reads the table, and with one process every older row is final *)
ClaimWindow(p) ==
    /\ pc[p] = "for"
    /\ batch[p] # <<>>
    /\ running[p]
    /\ LET t    == Head(batch[p])
           kept == IF Len(task_executions) < MaxExecs THEN task_executions
                   ELSE Tail(task_executions)
       IN /\ task_executions' = Append(kept, [task_id |-> t, status |-> "running"])
          /\ cur' = [cur EXCEPT ![p] = [task |-> t,
                                        execution_id |-> Len(kept) + 1]]
    /\ pc' = [pc EXCEPT ![p] = "exec"]
    /\ UNCHANGED <<hvars, xvars>>
    /\ UNCHANGED <<now, scheduled_tasks, running, retry_attempts, batch, wake,
                   memories>>

StarveRun(p) ==
    \/ Start(p)
    \/ Tick(p)
    \/ ClaimWindow(p)
    \/ FinishSuccess(p)
    \/ EndTick(p)
    \/ Wake(p)

NextStarve == StarveRun(1) \/ Advance \/ Elapse

(* ticks keep firing and every command ends *)
SpecStarve ==
    /\ InitStarve /\ [][NextStarve]_vars
    /\ WF_vars(StarveRun(1)) /\ WF_vars(Advance) /\ WF_vars(Elapse)

(* One TaskErrorHandler process at a time: command line invocations
   (task_error_handler.py execute / reset, task_daemon_enhanced.py), each a
   process that makes one call, one after another. *)
NextHandler ==
    \/ HStart(1)
    \/ \E n \in TaskNames : HExecute(1, n)
    \/ HRunSuccess(1)
    \/ \E err \in Errors : HRunFailure(1, err)
    \/ HWake(1)
    \/ \E n \in TaskNames : HReset(1, n)
    \/ HReport(1)
    \/ HExit(1)
    \/ HAdvance

SpecHandler == InitHandler /\ [][NextHandler]_vars

(* The command line "execute" of task_error_handler.py (244-248): it calls
   execute_with_retry(task_name, task_command) without a timeout, so
   subprocess.run(..., timeout=None) waits for the command however long it
   takes. *)
HHang(h) ==
    /\ h_pc[h] = "run"
    /\ h_pc' = [h_pc EXCEPT ![h] = "hung"]
    /\ UNCHANGED <<dvars, xvars>>
    /\ UNCHANGED <<now, error_state_file, error_state, h_call, h_sleep,
                   h_result, alerts, alerted>>

(* the process ends after printing the result of its call *)
HReturn(h) ==
    /\ h_pc[h] = "done"
    /\ HExit(h)

(* past the clock's horizon the sleeps of the retry loop still end *)
HElapse ==
    /\ now + HQuantum > HMaxNow
    /\ \E h \in HProcs : h_sleep[h] > 0
    /\ h_sleep' = [h \in HProcs |-> IF h_sleep[h] > HQuantum
                                    THEN h_sleep[h] - HQuantum ELSE 0]
    /\ UNCHANGED <<dvars, xvars>>
    /\ UNCHANGED <<now, error_state_file, error_state, h_pc, h_call, h_result,
                   alerts, alerted>>

(* subprocess.run of the current attempt: exit 0, failure, or no return *)
HRun(h) ==
    \/ HRunSuccess(h)
    \/ \E err \in Errors : HRunFailure(h, err)
    \/ HHang(h)

NextCall ==
    \/ HStart(1)
    \/ \E n \in TaskNames : HExecute(1, n)
    \/ HRun(1)
    \/ HWake(1)
    \/ HReturn(1)
    \/ HAdvance
    \/ HElapse

(* a process that is not killed goes on: subprocess.run does one of the
   things it can do, time.sleep returns, time passes *)
SpecCall ==
    /\ InitHandler /\ [][NextCall]_vars
    /\ WF_vars(HRun(1)) /\ WF_vars(HWake(1))
    /\ WF_vars(HAdvance) /\ WF_vars(HElapse)

(* Two TaskErrorHandler processes at the same time, as two cron jobs start
   them: process 1 always for portfolio_rebalancing, process 2 always for
   daily_backup.  Each makes one call of execute_with_retry. *)
NameOf(h) == IF h = 1 THEN "portfolio_rebalancing" ELSE "daily_backup"

HandlerRun(h) ==
    \/ HStart(h)
    \/ HExecute(h, NameOf(h))
    \/ HRunSuccess(h)
    \/ \E err \in Errors : HRunFailure(h, err)
    \/ HWake(h)

NextHandlerTwo == (\E h \in HProcs : HandlerRun(h)) \/ HAdvance

SpecHandlerTwo == InitHandler /\ [][NextHandlerTwo]_vars

----------------------------------------------------------------------------
(***************************************************************************)
(* The two delay computations on their own, over every policy and more     *)
(* failures in a row than any policy allows.                               *)
(***************************************************************************)
MaxAttempt == 8

(* the names with an entry in task_configs, and one without *)
PolicyNames == DOMAIN task_configs \cup {"daily_backup"}

MaxDelayOf(task_name) ==
    DictGet(Config(task_name), "max_delay", default_retry_config.max_delay)

(* execute_with_retry 170-172: attempt += 1;
   delay = self._get_retry_delay(task_name, attempt) *)
NextDelay(h) ==
    /\ h_call[h].task_name \in PolicyNames
    /\ h_call[h].attempt < MaxAttempt
    /\ h_call' = [h_call EXCEPT ![h].attempt = @ + 1]
    /\ h_sleep' = [h_sleep EXCEPT
                     ![h] = get_retry_delay(h_call[h].task_name,
                                            h_call[h].attempt + 1)]
    /\ UNCHANGED <<dvars, xvars>>
    /\ UNCHANGED <<now, error_state_file, error_state, h_pc, h_result, alerts,
                   alerted>>

(* _handle_task_failure 222-246 for task t: the count rises and the delay
   is taken from retry_delays *)
NextTableDelay(p, t) ==
    /\ retry_attempts[p][t] < max_retries
    /\ retry_attempts' = [retry_attempts EXCEPT ![p][t] = @ + 1]
    /\ scheduled_tasks' = FailureTasks(t, retry_attempts[p][t] + 1)
    /\ UNCHANGED <<hvars, xvars>>
    /\ UNCHANGED <<now, task_executions, pc, running, batch, cur, wake,
                   memories>>

InitDelay ==
    /\ DaemonInitWith(TRUE, TRUE)
    /\ ExecutorInit
    /\ error_state_file = EmptyDict
    /\ error_state = [h \in HProcs |-> EmptyDict]
    /\ h_pc = [h \in HProcs |-> "none"]
    /\ \E n \in PolicyNames :
          h_call = [h \in HProcs |-> IF h = 1
                      THEN [task_name |-> n, attempt |-> 0, last_error |-> ""]
                      ELSE NoCall]
    /\ h_sleep = [h \in HProcs |-> 0]
    /\ h_result = [h \in HProcs |-> NoResult]
    /\ alerts = [n \in TaskNames |-> 0]
    /\ alerted = [n \in TaskNames |-> FALSE]

NextDelays == NextDelay(1) \/ NextTableDelay(1, 1)

SpecDelay == InitDelay /\ [][NextDelays]_vars

(* CronScheduler.run_task for one task name.  c_pc[c] is 0 while caller c
   is outside run_task and the index of its child while it waits in
   communicate(); children[k] is the state of the k-th process started. *)
Live(k) == children[k] = "running"

(* run_task 142-176 and 214-217: "still running" -> return, else Popen and
   register the process; the finally clause runs on the return as well *)
RunTask(c) ==
    /\ c_pc[c] = 0
    /\ IF running_processes # 0 /\ Live(running_processes)
       THEN /\ running_processes' = 0
            /\ UNCHANGED <<children, c_pc>>
       ELSE /\ Len(children) < MaxChildren
            /\ children' = Append(children, "running")
            /\ running_processes' = Len(children) + 1
            /\ c_pc' = [c_pc EXCEPT ![c] = Len(children) + 1]
    /\ UNCHANGED <<now, dvars, hvars, x_pc, proc, x_signals, x_timer,
                   last_status>>

(* a process started by run_task ends by itself *)
ChildExit(k) ==
    /\ k \in DOMAIN children
    /\ Live(k)
    /\ children' = [children EXCEPT ![k] = "exited"]
    /\ UNCHANGED <<now, dvars, hvars, x_pc, proc, x_signals, x_timer,
                   last_status, running_processes, c_pc>>

(* run_task 178-217: communicate() returns because the child ended, or its
   timeout expires and the child is terminated / killed; the finally clause
   deletes the entry of the task name *)
RunTaskEnds(c) ==
    /\ c_pc[c] # 0
    /\ children' = [children EXCEPT ![c_pc[c]] = "exited"]
    /\ running_processes' = 0
    /\ c_pc' = [c_pc EXCEPT ![c] = 0]
    /\ UNCHANGED <<now, dvars, hvars, x_pc, proc, x_signals, x_timer,
                   last_status>>

(* run_task 210-217: communicate() raises another exception; the child is
   not waited for, the finally clause deletes the entry *)
RunTaskError(c) ==
    /\ c_pc[c] # 0
    /\ running_processes' = 0
    /\ c_pc' = [c_pc EXCEPT ![c] = 0]
    /\ UNCHANGED <<now, dvars, hvars, x_pc, proc, x_signals, x_timer,
                   last_status, children>>

NextCron ==
    \/ \E c \in Callers : RunTask(c) \/ RunTaskEnds(c) \/ RunTaskError(c)
    \/ \E k \in 1..MaxChildren : ChildExit(k)

(* both command runners, each running one command *)
InitExecutor == DaemonInitWith(TRUE, TRUE) /\ HandlerInit /\ ExecutorInit

ExecutorStep(e) ==
    \/ XPopen(e)
    \/ XExit(e)
    \/ XCommunicateReturns(e)
    \/ XTimeoutExpired(e)
    \/ XWaitReturns(e)
    \/ XWaitExpired(e)

NextExecutor == (\E e \in Executors : ExecutorStep(e)) \/ XAdvance

SpecExecutor == InitExecutor /\ [][NextExecutor]_vars

(* run_task called for one task name: from the scheduler loop, and while
   that call waits in communicate(), from a second caller *)
SpecCron == InitExecutor /\ [][NextCron]_vars

----------------------------------------------------------------------------
(***************************************************************************)
(* Properties                                                              *)
(***************************************************************************)
IsRunning(execs, i) == execs[i].status = "running"

(* ids of the 'running' execution records of task t *)
RunningFor(t) ==
    {i \in 1..Len(task_executions) :
        task_executions[i].task_id = t /\ IsRunning(task_executions, i)}

(* number of failed / timeout records of task t since its last success,
   among the first i records of execs *)
RECURSIVE ConsecutiveFailedUpTo(_, _, _)
ConsecutiveFailedUpTo(execs, t, i) ==
    IF i = 0 THEN 0
    ELSE IF execs[i].task_id # t THEN ConsecutiveFailedUpTo(execs, t, i - 1)
    ELSE IF execs[i].status = "success" THEN 0
    ELSE IF execs[i].status \in {"failed", "timeout"}
         THEN 1 + ConsecutiveFailedUpTo(execs, t, i - 1)
    ELSE ConsecutiveFailedUpTo(execs, t, i - 1)

ConsecutiveFailed(execs, t) == ConsecutiveFailedUpTo(execs, t, Len(execs))

SuccessCount(t) ==
    Cardinality({i \in 1..Len(task_executions) :
                    /\ task_executions[i].task_id = t
                    /\ task_executions[i].status = "success"})

(* the daemon's disabled state: status 'failed' with next_run_at NULL *)
Disabled(rows, t) == rows[t].status = "failed" /\ rows[t].next_run_at = NULL

(* the handler's exhausted state, as persisted *)
Exhausted(task_name) ==
    LET task_id == get_task_id(task_name) IN
    /\ task_id \in DOMAIN error_state_file
    /\ error_state_file[task_id].consecutive_failures > MaxRetriesOf(task_name)

(* C1: a single dispatcher, crashes and restarts included, never inserts a
   'running' execution record for a task that still has a 'running' record. *)
C1_NoDispatchWhileRunning ==
    [][Len(task_executions') > Len(task_executions) =>
         RunningFor(task_executions'[Len(task_executions')].task_id) = {}]_vars

(* C2: with two dispatchers on one store, no state holds two 'running'
   execution records of the same task. *)
C2_AtMostOneRunningPerTask ==
    \A t \in TaskIds : Cardinality(RunningFor(t)) <= 1

(* C3: a task is Disabled after exactly max_retries + 1 consecutive failed
   attempts (non-zero exit or timeout): never with fewer, always with that
   many, and a further attempt is never recorded. *)
C3_DisabledAtMaxRetriesPlusOne ==
    \A t \in TaskIds :
        /\ Disabled(scheduled_tasks, t) <=>
              ConsecutiveFailed(task_executions, t) >= max_retries + 1
        /\ ConsecutiveFailed(task_executions, t) <= max_retries + 1

(* C4: a Disabled task has had the alert callback invoked exactly once when
   its policy is critical and not at all when it is not. *)
C4_AlertOnceIffCritical ==
    \A t \in TaskIds :
        Disabled(scheduled_tasks, t) =>
            memories[t] = IF Critical(scheduled_tasks[t].task_name) THEN 1 ELSE 0

(* C5: the alert callback of a task is not invoked again unless a success or
   a reset of that task happened since its last invocation. *)
C5_NoSecondAlert ==
    [][\A n \in TaskNames : alerts'[n] > alerts[n] => ~alerted[n]]_vars

(* C6: a call of execute_with_retry never starts running the command of a
   task whose retries are exhausted. *)
C6_ExhaustedNeverRuns ==
    \A h \in HProcs :
        (h_pc[h] = "run" /\ h_call[h].attempt = 0) =>
            ~Exhausted(h_call[h].task_name)

(* process p finalizes its attempt of task t as 'success' *)
SuccessStep(p, t) ==
    /\ pc[p] = "exec"
    /\ cur[p].task = t
    /\ task_executions'[cur[p].execution_id].status = "success"

(* task t becomes disabled in this step *)
DisableStep(t) ==
    ~Disabled(scheduled_tasks, t) /\ Disabled(scheduled_tasks', t)

(* C7: a success of task t resets the dispatcher's consecutive-failure count
   of t to 0 and, for an interval task, sets next_run_at to now + interval
   (no backoff delay); a task is only disabled with max_retries + 1 failed
   attempts since its last success. *)
C7_SuccessResets ==
    [][\A t \in TaskIds :
         /\ \A p \in Procs : SuccessStep(p, t) =>
              /\ retry_attempts'[p][t] = 0
              /\ ~Disabled(scheduled_tasks', t)
              /\ scheduled_tasks[t].schedule_type \in {"interval", "recurring"} =>
                    scheduled_tasks'[t].next_run_at = now' + interval_seconds
         /\ DisableStep(t) =>
              ConsecutiveFailed(task_executions', t) >= max_retries + 1]_vars

(* a timed-out attempt of the recurring task 1 followed by a success of it *)
C7_Witness ==
    /\ Len(task_executions) >= 2
    /\ task_executions[Len(task_executions)] = [task_id |-> 1, status |-> "success"]
    /\ \E i \in 1..(Len(task_executions) - 1) :
          task_executions[i] = [task_id |-> 1, status |-> "timeout"]
    /\ pc[1] = "for"
    /\ retry_attempts[1][1] = 0
    /\ scheduled_tasks[1].next_run_at = now + interval_seconds

(* C8: once the dispatcher has started, every 'running' execution record
   belongs to the attempt it is executing: none is left over from before. *)
C8_NoOrphanAfterStartup ==
    pc[1] # "down" =>
        \A i \in 1..Len(task_executions) :
            IsRunning(task_executions, i) =>
                (pc[1] = "exec" /\ cur[1].execution_id = i)

(* C9: a start of the dispatcher leaves every task's consecutive-failure
   count as it was when the process stopped. *)
C9_CountSurvivesRestart ==
    [][(pc[1] = "down" /\ pc'[1] # "down") =>
          retry_attempts'[1] = retry_attempts[1]]_vars

(* C10: a task with schedule 'once' has at most one successful execution. *)
C10_OnceRunsOnce ==
    \A t \in TaskIds :
        scheduled_tasks[t].schedule_type = "once" => SuccessCount(t) <= 1

(* process p claims a task in this step: its 'running' record is inserted *)
ClaimStep(p) == pc[p] = "for" /\ pc'[p] = "exec"

(* C11: once an execution record exists for a slot, next_run_at no longer
   holds that slot's due time: the step that inserts the record of task t
   moves next_run_at of t away from the due time it was fetched with. *)
C11_ClaimMovesNextRun ==
    [][\A p \in Procs : ClaimStep(p) =>
          LET t == cur'[p].task IN
          scheduled_tasks'[t].next_run_at # scheduled_tasks[t].next_run_at]_vars

(* the failure of task t that exhausts the retry budget is handled by p *)
ExhaustStep(p, t) ==
    /\ retry_attempts[p][t] = max_retries
    /\ retry_attempts'[p][t] = max_retries + 1

(* C12: the failure that exhausts the retry budget writes the task with
   is_active = false and next_run_at = null. *)
C12_ExhaustionSwitchesOff ==
    [][\A p \in Procs, t \in TaskIds : ExhaustStep(p, t) =>
          /\ ~scheduled_tasks'[t].is_active
          /\ scheduled_tasks'[t].next_run_at = NULL]_vars

(* C13: no attempt is counted as a failure without an execution record
   having been created for it: the failure count of task t rises only in a
   step that ends an attempt of t whose record exists. *)
C13_CountedOnlyWithRecord ==
    [][\A p \in Procs, t \in TaskIds :
         retry_attempts'[p][t] > retry_attempts[p][t] =>
            /\ pc[p] = "exec"
            /\ cur[p].task = t
            /\ cur[p].execution_id \in 1..Len(task_executions)]_vars

Terminal == {"success", "failed", "timeout"}

(* C14: an execution record with a terminal status is never modified or
   removed by a later step. *)
C14_TerminalRecordsImmutable ==
    [][\A i \in 1..Len(task_executions) :
         task_executions[i].status \in Terminal =>
            /\ Len(task_executions') >= i
            /\ task_executions'[i] = task_executions[i]]_vars

(* a timed-out attempt of task 1, and after it another attempt of task 1
   finalized with a different status *)
C14_Witness ==
    /\ Len(task_executions) >= 2
    /\ task_executions[1] = [task_id |-> 1, status |-> "timeout"]
    /\ task_executions[2] = [task_id |-> 1, status |-> "failed"]

(* process p finishes handling the outcome of the attempt it was executing *)
OutcomeStep(p) == pc[p] = "exec" /\ pc'[p] = "for"

RecordsOf(execs, t) ==
    {i \in 1..Len(execs) : execs[i].task_id = t}

(* C15: handling the outcome of task A leaves the row, the failure count,
   the alerts and the execution records of every other task B unchanged. *)
C15_OtherTasksUntouched ==
    [][\A p \in Procs : OutcomeStep(p) =>
         \A b \in TaskIds \ {cur[p].task} :
            /\ scheduled_tasks'[b] = scheduled_tasks[b]
            /\ retry_attempts'[p][b] = retry_attempts[p][b]
            /\ memories'[b] = memories[b]
            /\ RecordsOf(task_executions', b) = RecordsOf(task_executions, b)
            /\ \A i \in RecordsOf(task_executions, b) :
                  task_executions'[i] = task_executions[i]]_vars

(* in one tick task 1 timed out and then task 2 timed out; task 1 keeps the
   retry time and the count its own failure gave it *)
C15_Witness ==
    /\ now = 0
    /\ Len(task_executions) = 2
    /\ task_executions[1] = [task_id |-> 1, status |-> "timeout"]
    /\ task_executions[2] = [task_id |-> 2, status |-> "timeout"]
    /\ retry_attempts[1][1] = 1
    /\ retry_attempts[1][2] = 1
    /\ scheduled_tasks[1].next_run_at = retry_delays[1]
    /\ scheduled_tasks[2].next_run_at = retry_delays[1]

(* the claim transaction of the task at the head of p's batch fails: the for
   loop moves on (or the tick ends) without an execution record *)
ClaimFailedStep(p) ==
    /\ pc[p] = "for"
    /\ running[p]
    /\ batch[p] # <<>>
    /\ pc'[p] # "exec"
    /\ batch'[p] # batch[p]

(* C16: a store error while claiming is not counted as a task failure: it
   leaves every failure count and every task's disabled status unchanged. *)
C16_StoreErrorNotCounted ==
    [][\A p \in Procs : ClaimFailedStep(p) =>
         /\ retry_attempts'[p] = retry_attempts[p]
         /\ \A t \in TaskIds :
               Disabled(scheduled_tasks', t) <=> Disabled(scheduled_tasks, t)]_vars

(* a store error while finalizing: the attempt is over and its record is
   still 'running' *)
FinalizeFailedStep(p) ==
    /\ pc[p] = "exec"
    /\ pc'[p] # "exec"
    /\ IsRunning(task_executions', cur[p].execution_id)

StoreErrorStep(p) == ClaimFailedStep(p) \/ FinalizeFailedStep(p)

LeavesLoop(p) == pc[p] # "down" /\ pc'[p] = "down"

(* C17: a store error leaves the dispatcher inside its loop (in the for loop
   of the tick, or sleeping towards the next tick) with self.running as it
   was, and the loop is left only at its while test, after a shutdown signal
   cleared self.running. *)
C17_StoreErrorKeepsLoop ==
    [][\A p \in Procs :
         /\ StoreErrorStep(p) =>
               /\ pc'[p] \in {"for", "sleep", "loop"}
               /\ running'[p] = running[p]
               /\ running[p] => pc'[p] \in {"for", "sleep"}
         /\ LeavesLoop(p) => (pc[p] = "loop" /\ ~running[p])]_vars

(* a claim of task 1 failed on a store error (a failure is counted and no
   record exists), and a later tick has fetched task 1 again *)
C17_Witness ==
    /\ task_executions = <<>>
    /\ retry_attempts[1][1] >= 1
    /\ now > 0
    /\ pc[1] = "for"
    /\ running[1]
    /\ batch[1] = <<1>>

(* process p finalizes its attempt as 'failed' or 'timeout' *)
FailedOutcomeStep(p) ==
    /\ OutcomeStep(p)
    /\ task_executions'[cur[p].execution_id].status \in {"failed", "timeout"}

(* C18: an attempt recorded 'failed' has the effect on retry state that an
   attempt recorded 'timeout' has: the count rises by one and the task row
   gets the backoff or the disablement of that count. *)
C18_FailedLikeTimeout ==
    [][\A p \in Procs : FailedOutcomeStep(p) =>
         LET t  == cur[p].task
             rc == retry_attempts[p][t] + 1
         IN /\ retry_attempts'[p][t] = rc
            /\ scheduled_tasks' = FailureTasks(t, rc)]_vars

(* C19: after a counted failure that does not exhaust the budget,
   next_run_at = now + min(base_delay * exponential_base^n, max_delay) with n
   the count after the increment and the policy that of the task's name. *)
C19_DelayIsExponential ==
    [][\A p \in Procs, t \in TaskIds :
         (/\ retry_attempts'[p][t] = retry_attempts[p][t] + 1
          /\ retry_attempts'[p][t] <= max_retries) =>
            scheduled_tasks'[t].next_run_at =
               now' + get_retry_delay(scheduled_tasks[t].task_name,
                                      retry_attempts'[p][t])]_vars

(* the handler starts the sleep before a retry *)
RetrySleepStep(h) == h_pc[h] = "run" /\ h_pc'[h] = "sleep"

(* C20: for a task under the default policy (max_retries 3, base_delay 60)
   the sleep before the k-th retry is base_delay * 2^(k-1), capped by
   max_delay: 60, 120, 240. *)
C20_KthRetryDelay ==
    [][\A h \in HProcs :
         (RetrySleepStep(h) /\ Config(h_call'[h].task_name) = default_retry_config) =>
            h_sleep'[h] = Min(default_retry_config.base_delay
                                * Pow(2, h_call'[h].attempt - 1),
                              default_retry_config.max_delay)]_vars

(* the daemon's delay for the failure just counted, now + delay being what
   it wrote to next_run_at *)
TableDelay(rows, t) == rows[t].next_run_at - now

(* C21: each further failure in a row gets a retry delay at least as long
   as the one before it and never longer than max_delay, for every policy of
   the handler and for the daemon's table. *)
C21_DelayMonotoneAndCapped ==
    [][/\ h_sleep'[1] >= h_sleep[1]
       /\ h_sleep'[1] <= MaxDelayOf(h_call'[1].task_name)
       /\ TableDelay(scheduled_tasks', 1) >= TableDelay(scheduled_tasks, 1)
       /\ TableDelay(scheduled_tasks', 1) <= default_retry_config.max_delay]_vars

(* crypto_market_analysis (base_delay 120): the delay of the 5th failure in
   a row is cut to max_delay, and the daemon's table has reached its last
   entry *)
C21_Witness ==
    /\ h_call[1] = [task_name |-> "crypto_market_analysis", attempt |-> 5,
                    last_error |-> ""]
    /\ h_sleep[1] = default_retry_config.max_delay
    /\ retry_attempts[1][1] = max_retries
    /\ TableDelay(scheduled_tasks, 1) = retry_delays[Len(retry_delays)]

(* task a may be dispatched ahead of task b: higher priority, or the same
   priority and not due later *)
MayPrecede(rows, a, b) ==
    \/ rows[a].priority > rows[b].priority
    \/ /\ rows[a].priority = rows[b].priority
       /\ rows[a].next_run_at <= rows[b].next_run_at

(* C22: a task is dispatched only while it is active and due, and ahead of
   every task the same tick dispatches after it only if priority descending,
   then next_run_at ascending, allows that order. *)
C22_DispatchDueInPriorityOrder ==
    [][\A p \in Procs : ClaimStep(p) =>
         LET t == cur'[p].task IN
         /\ scheduled_tasks[t].is_active
         /\ scheduled_tasks[t].next_run_at # NULL
         /\ scheduled_tasks[t].next_run_at <= now
         /\ \A i \in 1..Len(batch'[p]) :
               MayPrecede(scheduled_tasks, t, batch'[p][i])]_vars

(* both tasks were due at 0; the tick has finished task 1 (priority 9) and
   now runs task 2 (priority 3) *)
C22_Witness ==
    /\ now = 0
    /\ Len(task_executions) = 2
    /\ task_executions[1].task_id = 1
    /\ task_executions[1].status \in Terminal
    /\ task_executions[2] = [task_id |-> 2, status |-> "running"]
    /\ pc[1] = "exec"
    /\ cur[1].task = 2

(* C23: a success of a recurring task sets next_run_at to the reference time
   plus the task's interval, which is later than the reference time. *)
C23_IntervalReschedule ==
    [][\A p \in Procs, t \in TaskIds :
         (/\ SuccessStep(p, t)
          /\ scheduled_tasks[t].schedule_type \in {"interval", "recurring"}) =>
            /\ scheduled_tasks'[t].next_run_at = now' + 60 * interval_minutes[t]
            /\ scheduled_tasks'[t].next_run_at > now']_vars

(* C24: once the shutdown signal has cleared self.running the dispatcher
   inserts no further execution record, and it leaves its loop only between
   attempts, with every execution record finalized. *)
C24_GracefulShutdown ==
    [][\A p \in Procs :
         /\ (pc[p] # "down" /\ ~running[p]) =>
               Len(task_executions') = Len(task_executions)
         /\ LeavesLoop(p) =>
               /\ pc[p] = "loop"
               /\ cur[p] = NoCur
               /\ \A i \in 1..Len(task_executions) :
                     task_executions[i].status \in Terminal]_vars

(* the signal came in the first tick: the attempt of task 1 was finalized,
   task 2, due in the same tick, was never claimed, and the process is gone *)
C24_Witness ==
    /\ pc[1] = "down"
    /\ ~running[1]
    /\ now = 0
    /\ Len(task_executions) = 1
    /\ task_executions[1].task_id = 1
    /\ task_executions[1].status \in Terminal
    /\ IsDue(2)

(* process p is done with the attempt it was executing, in whatever way *)
AttemptEndStep(p) == pc[p] = "exec" /\ pc'[p] # "exec"

(* C25: finalizing is all or nothing: when the attempt of task t is over
   and its execution record is still 'running', the attempt has touched
   neither the row of t nor the failure count of t. *)
C25_FinalizeAllOrNothing ==
    [][\A p \in Procs : AttemptEndStep(p) =>
         LET t == cur[p].task IN
         IsRunning(task_executions', cur[p].execution_id) =>
            /\ scheduled_tasks'[t] = scheduled_tasks[t]
            /\ retry_attempts'[p][t] = retry_attempts[p][t]]_vars

(* handler process h makes the call reset_task_state(n) *)
ResetStep(h, n) ==
    /\ h_pc[h] = "ready"
    /\ h_pc'[h] = "done"
    /\ h_result'[h].kind = "none"
    /\ h_call'[h].task_name = n

(* handler process h makes a call execute_with_retry(n) that is skipped *)
SkipStep(h, n) ==
    /\ h_pc[h] = "ready"
    /\ h_pc'[h] = "done"
    /\ h_result'[h].kind = "skipped"
    /\ h_call'[h].task_name = n

(* the persisted state of task n makes execute_with_retry skip it for an hour *)
SkippedState(file, n) ==
    /\ get_task_id(n) \in DOMAIN file
    /\ file[get_task_id(n)].consecutive_failures >= MaxRetriesOf(n)

(* C26: a reset of a task that is being skipped writes its
   consecutive_failures as 0 and leaves the entry of every other task as it
   was; a call is only skipped for a task whose persisted count is at
   max_retries, so the task is run again after its reset. *)
C26_ResetReactivates ==
    [][\A h \in HProcs, n \in TaskNames :
         /\ (ResetStep(h, n) /\ SkippedState(error_state_file, n)) =>
               /\ DOMAIN error_state_file' = DOMAIN error_state_file
               /\ error_state_file'[get_task_id(n)].consecutive_failures = 0
               /\ ~SkippedState(error_state_file', n)
               /\ \A o \in DOMAIN error_state_file \ {get_task_id(n)} :
                     error_state_file'[o] = error_state_file[o]
         /\ SkipStep(h, n) => SkippedState(error_state_file, n)]_vars

(* portfolio_rebalancing failed three times and never succeeded, was reset,
   and within the hour a new call is running its command *)
C26_Witness ==
    LET id == get_task_id("portfolio_rebalancing") IN
    /\ id \in DOMAIN error_state_file
    /\ error_state_file[id].failures = 3
    /\ error_state_file[id].consecutive_failures = 0
    /\ error_state_file[id].last_success = NULL
    /\ now - error_state_file[id].last_failure < OneHour
    /\ h_pc[1] = "run"
    /\ h_call[1].task_name = "portfolio_rebalancing"
    /\ h_call[1].attempt = 0

(* subprocess.run of p's attempt returned exit code 0, and execute_task
   goes on to record it, on a store that works or fails *)
ExitZeroStep(p) ==
    \/ FinishSuccess(p)
    \/ \E r \in StoreFaults : FinishStoreError(p, TRUE, r)

(* C27: the status written for an attempt is given by how its process
   ended: an attempt whose process exits with code 0 is recorded 'success'.
   (Taken for attempts of a task with a failure already counted: there the
   reset of the count tells an exit code 0 from every other ending.) *)
C27_ExitZeroIsSuccess ==
    [][\A p \in Procs :
         (pc[p] = "exec" /\ retry_attempts[p][cur[p].task] >= 1
                        /\ ExitZeroStep(p)) =>
            task_executions'[cur[p].execution_id].status = "success"]_vars

(* the runner of e sends the forced kill in this step *)
KillStep(e) ==
    /\ Len(x_signals'[e]) = Len(x_signals[e]) + 1
    /\ x_signals'[e][Len(x_signals'[e])] = "SIGKILL"

(* C28: when an attempt exceeds its timeout the runner first sends the
   graceful termination signal and sends the forced kill only afterwards,
   and only if the process has not exited within the grace window; after a
   timeout the process is not left running. *)
C28_TerminateBeforeKill ==
    [][\A e \in Executors :
         /\ KillStep(e) =>
               /\ x_signals[e] = <<"SIGTERM">>
               /\ x_pc[e] = "wait" /\ x_timer[e] = 0
               /\ proc[e] = "running"
         /\ last_status'[e] = "timeout" => proc'[e] # "running"]_vars

(* C29: in every reachable state a task's consecutive-failure count is
   between 0 and max_retries + 1, in the error handler's state file and in
   every daemon's retry_attempts. *)
C29_FailureCountInRange ==
    /\ \A k \in DOMAIN error_state_file :
          /\ error_state_file[k].consecutive_failures >= 0
          /\ error_state_file[k].consecutive_failures <=
                 MaxRetriesOf(error_state_file[k].task_name) + 1
    /\ \A p \in Procs : \A t \in TaskIds :
          /\ retry_attempts[p][t] >= 0
          /\ retry_attempts[p][t] <= max_retries + 1

(* C30: every execution record the dispatcher creates eventually has a
   terminal status (success, failed or timeout), the dispatcher process not
   being killed, store errors in the failure handler included. *)
C30_RecordsReachTerminal ==
    \A i \in 1..MaxExecs :
        (Len(task_executions) >= i) ~>
            (Len(task_executions) >= i /\ task_executions[i].status \in Terminal)

(* C31: a call of execute_with_retry for a task whose consecutive_failures
   is at least max_retries and whose last failure is less than one hour old
   returns "skipped" without running the command and leaves the error state,
   in memory and in the file, as it was. *)
C31_SkipLeavesState ==
    [][\A h \in HProcs, n \in TaskNames :
         LET id == get_task_id(n) IN
         (/\ HExecute(h, n)
          /\ id \in DOMAIN error_state[h]
          /\ error_state[h][id].consecutive_failures >= MaxRetriesOf(n)
          /\ now - error_state[h][id].last_failure < OneHour) =>
            /\ h_result'[h].kind = "skipped"
            /\ h_pc'[h] = "done"
            /\ error_state'[h] = error_state[h]
            /\ error_state_file' = error_state_file]_vars

(* daily_backup failed on all four attempts of a call, and the next call
   within the hour was skipped *)
C31_Witness ==
    LET id == get_task_id("daily_backup") IN
    /\ h_pc[1] = "done"
    /\ h_result[1].kind = "skipped"
    /\ h_call[1].task_name = "daily_backup"
    /\ id \in DOMAIN error_state_file
    /\ error_state_file[id].consecutive_failures = 4
    /\ now - error_state_file[id].last_failure < OneHour

(* field f of the override written for task n in __init__, dflt when there
   is no override for n or the override does not define f *)
OverrideOr(n, f, dflt) ==
    IF n \in DOMAIN task_configs /\ f \in DOMAIN task_configs[n]
    THEN task_configs[n][f] ELSE dflt

(* C32: the policy of a task is looked up by its name, field by field:
   max_retries, base_delay, max_delay, exponential_base and critical are the
   override's value where the override defines the field and the default
   otherwise (critical: false); the delay of every retry is computed from
   those values. *)
C32_PolicyByName ==
    [][LET n == h_call[1].task_name
           d == default_retry_config
       IN /\ MaxRetriesOf(n) = OverrideOr(n, "max_retries", d.max_retries)
          /\ Critical(n) = OverrideOr(n, "critical", FALSE)
          /\ h_call'[1].attempt = h_call[1].attempt + 1 =>
                h_sleep'[1] =
                   Min(OverrideOr(n, "base_delay", d.base_delay)
                         * Pow(OverrideOr(n, "exponential_base", d.exponential_base),
                               h_call'[1].attempt),
                       OverrideOr(n, "max_delay", d.max_delay))]_vars

(* portfolio_rebalancing: base_delay 600 from its override, exponential_base
   2 and max_delay 3600 from the defaults, second retry *)
C32_Witness ==
    /\ h_call[1].task_name = "portfolio_rebalancing"
    /\ h_call[1].attempt = 2
    /\ h_sleep[1] = 2400

(* C33: in the failure report a task is listed as failing exactly when its
   consecutive_failures > 0, as critical exactly when it is failing and its
   policy is critical, as recovered exactly when its consecutive_failures is
   0, it has a last success and its failures > 0; no task is listed as both
   failing and recovered. *)
C33_ReportLists ==
    \A h \in HProcs :
        h_result[h].kind = "report" =>
            LET rep == h_result[h]
                st  == error_state[h]
            IN /\ rep.failing_tasks \cup rep.recovered_tasks \subseteq DOMAIN st
               /\ rep.failing_tasks \cap rep.recovered_tasks = {}
               /\ \A k \in DOMAIN st :
                     /\ k \in rep.failing_tasks <=>
                           st[k].consecutive_failures > 0
                     /\ k \in rep.critical_tasks <=>
                           /\ st[k].consecutive_failures > 0
                           /\ Critical(st[k].task_name)
                     /\ k \in rep.recovered_tasks <=>
                           /\ st[k].consecutive_failures = 0
                           /\ st[k].last_success # NULL
                           /\ st[k].failures > 0

(* a report that lists portfolio_rebalancing as failing and critical and
   daily_backup, which failed and then succeeded, as recovered *)
C33_Witness ==
    /\ h_result[1].kind = "report"
    /\ h_result[1].failing_tasks = {get_task_id("portfolio_rebalancing")}
    /\ h_result[1].critical_tasks = {get_task_id("portfolio_rebalancing")}
    /\ h_result[1].recovered_tasks = {get_task_id("daily_backup")}

(* C34: a call of execute_with_retry runs the command at most
   max_retries + 1 times and always returns. *)
C34_CallTerminates ==
    \A h \in HProcs :
        /\ [](h_pc[h] = "run" =>
                 h_call[h].attempt <= MaxRetriesOf(h_call[h].task_name))
        /\ (h_pc[h] = "run") ~> (h_pc[h] = "done")

(* C35: every active task whose next_run_at has passed is eventually
   dispatched, ticks firing and commands ending, also when as many tasks of
   higher priority are due as one tick fetches. *)
C35_DueTaskIsDispatched ==
    \A t \in TaskIds :
        IsDue(t) ~> (pc[1] = "exec" /\ cur[1].task = t)

(* C36: when two handler processes have run execute_with_retry at the same
   time for different task names and both have finished, the error-state
   file holds, for each of the two tasks, the failures and
   consecutive_failures its process ended with (a task without entry
   counting as one without failures). *)
C36_NoLostUpdate ==
    (\A h \in HProcs : h_pc[h] = "done") =>
        \A h \in HProcs :
            LET id == get_task_id(NameOf(h))
                saved == DictGet(error_state_file, id, NewTaskState(NameOf(h)))
            IN /\ saved.failures = error_state[h][id].failures
               /\ saved.consecutive_failures =
                     error_state[h][id].consecutive_failures

(* C37: in the error handler every task has
   0 <= consecutive_failures <= failures, and no step lowers a task's
   failures: neither a success nor reset_task_state (a task without entry
   counting as one without failures). *)
C37_FailuresMonotone ==
    [][\A k \in DOMAIN error_state_file :
         LET saved == DictGet(error_state_file', k,
                              NewTaskState(error_state_file[k].task_name))
         IN /\ saved.failures >= error_state_file[k].failures
            /\ saved.consecutive_failures >= 0
            /\ saved.consecutive_failures <= saved.failures]_vars

(* C38: run_task never has two live processes of the same task name; a
   call made while the task's process is still running starts no process and
   leaves that process's entry in running_processes. *)
C38_OneLiveProcess ==
    [][/\ Cardinality({k \in DOMAIN children' : children'[k] = "running"}) <= 1
       /\ \A c \in Callers :
             (RunTask(c) /\ running_processes # 0
                         /\ Live(running_processes)) =>
                /\ children' = children
                /\ running_processes' = running_processes]_vars

====
